---- MODULE Spec2Model ----
(***************************************************************************)
(* Model of the capability server of capnproto.org/go/capnp/v3/server      *)
(* (src/capnpc-go/nodes.go, lines 404-735): the method table, Send/Recv/   *)
(* start, the handleCalls dispatch goroutines, handleCall, the Call API    *)
(* that method bodies use (AllocResults, Ack) and Shutdown.                *)
(***************************************************************************)
EXTENDS Naturals, Sequences, FiniteSets

\* ---------------------------------------------------------------- bounds
\* Number of calls start() may accept in one behaviour of Spec and FairSpec.
MaxCalls == 3
\* Number of calls start() may accept in one behaviour of CallSpec.
MaxApiCalls == 1
\* Number of Call API invocations (AllocResults, Ack) one body may make.
MaxOps == 2

\* Calls per behaviour of PairSpec: one that acks and one behind it.
MaxPair == 2

\* Pipelined calls made on one AnswerQueue in PipeSpec.
MaxPipe == 2

\* Longest method list handed to New in TableSpec.
MaxMethods == 3
\* InterfaceID ranges over 1..MaxID and MethodID over 0..MaxID-1 in TableSpec.
MaxID == 2

\* ---------------------------------------------------------------- values
NoErr == "noerr"
BodyErrors == {"bodyerr"}
Unimplemented == "unimplemented"
PlaceArgsErr == "place args"
NewMessageErr == "new message"
AllocErr == "alloc failed"
MultipleAllocErr == "multiple calls to AllocResults"

\* The zero capnp.Struct{}; the k-th struct the Returner allocates for a
\* call is the number k.
ZeroStruct == 0

MethodID(i, m) == [InterfaceID |-> i, MethodID |-> m]

\* The methods handed to New, in the caller's order.
MethodList == << MethodID(2, 0), MethodID(1, 1) >>

\* The identities callers ask for: the registered ones, one that sorts
\* before every registered method and one that sorts after them all.
QueryIDs == { MethodID(1, 1), MethodID(2, 0), MethodID(1, 0), MethodID(2, 1) }

\* The identities of TableSpec.
AllIDs == { MethodID(i, m) : i \in 1..MaxID, m \in 0..(MaxID - 1) }

\* The lists of at most MaxMethods methods with pairwise distinct identities.
MethodLists ==
    { ms \in UNION { [1..n -> AllIDs] : n \in 0..MaxMethods } :
        \A i, j \in 1..Len(ms) : i # j => ms[i] # ms[j] }

\* What a method body may return.
BodyResults == {NoErr} \cup BodyErrors

\* The PlaceArgs callback of a Send: nil, succeeding, failing; "noblank" is
\* a callback whose blank struct newBlankStruct fails to allocate.
PlaceInputs == {"nil", "ok", "fail", "noblank"}

CallIDs == 1..MaxCalls
\* Dispatch goroutines: 0 is the one New starts, c the one the Ack of call c starts.
TaskIDs == 0..MaxCalls

\* ------------------------------------------------------- sortedMethods
\* Less without the comparison of MethodID.
LessByInterface(a, b) == a.InterfaceID < b.InterfaceID

\* sortedMethods.Less on two methods.
Less(a, b) ==
    IF a.InterfaceID # b.InterfaceID
    THEN a.InterfaceID < b.InterfaceID
    ELSE a.MethodID < b.MethodID

RECURSIVE InsertSorted(_, _)
InsertSorted(m, sm) ==
    IF sm = << >> THEN << m >>
    ELSE IF Less(m, Head(sm)) THEN << m >> \o sm
    ELSE << Head(sm) >> \o InsertSorted(m, Tail(sm))

\* sort.Sort(srv.methods): the permutation of the list ordered by Less.
RECURSIVE SortMethods(_)
SortMethods(ms) ==
    IF ms = << >> THEN << >>
    ELSE InsertSorted(Head(ms), SortMethods(Tail(ms)))

\* The predicate find hands to sort.Search, on the 0-based index i.
FindPred(sm, id, i) ==
    IF sm[i + 1].InterfaceID # id.InterfaceID
    THEN sm[i + 1].InterfaceID >= id.InterfaceID
    ELSE sm[i + 1].MethodID >= id.MethodID

\* sort.Search: binary search for the least index in [i, j) where the
\* predicate holds, j if there is none.
RECURSIVE Search(_, _, _, _)
Search(sm, id, i, j) ==
    IF i < j
    THEN LET h == (i + j) \div 2
         IN  IF ~FindPred(sm, id, h)
             THEN Search(sm, id, h + 1, j)
             ELSE Search(sm, id, i, h)
    ELSE i

\* A *Method is the position of the method in srv.methods, NilMethod is nil.
NilMethod == 0

\* sortedMethods.find: a pointer to the method with the given identity, or nil.
find(sm, id) ==
    LET i == Search(sm, id, 0, Len(sm))
    IN  IF i = Len(sm) THEN NilMethod
        ELSE IF sm[i + 1].InterfaceID # id.InterfaceID
                \/ sm[i + 1].MethodID # id.MethodID
        THEN NilMethod
        ELSE i + 1

\* ---------------------------------------------------------------- state
VARIABLES
    canceled,   \* handleCallsCtx is done (cancelHandleCalls was called)
    wg,         \* srv.wg: the outstanding-call counter
    callQueue,  \* srv.callQueue: the ids of the enqueued Calls, oldest first
    nEnq,       \* number of Calls enqueued so far; a Call's id is its rank
    pending,    \* number of start() invocations between wg.Add and Send
    calls,      \* the Call objects, by id
    frames,     \* what each running body has done with its Call so far
    tasks,      \* the handleCalls goroutines, by id
    started,    \* started[c]: the body of call c has begun
    aq,         \* the AnswerQueue of each call
    returner,   \* the Returner of each call: the Return invocations it got
    released,   \* number of ReleaseArgs invocations the dispatcher made per call
    reply,      \* the last Send/Recv invocation and what its caller got at once
    shutdown,   \* srv.shutdown is non-nil
    sd,         \* the goroutine in Shutdown: its position and the hook's count
    input,      \* the methods handed to New, in the caller's order
    methods,    \* srv.methods: the method table
    lookup,     \* the last srv.methods.find made on its own and what it returned
    ctxs,       \* per call: its caller's context, its callCtx and the monitor
    pipe        \* per call: the pipelined calls made on its AnswerQueue

\* The method table and the record of the lookups made in it.
tableVars == << input, methods, lookup >>

vars == << canceled, wg, callQueue, nEnq, pending, calls, frames, tasks,
           started, aq, returner, released, reply, shutdown, sd, tableVars, ctxs,
           pipe >>

\* Everything but the record of the last invocation.
serverVars == << canceled, wg, callQueue, nEnq, pending, calls, frames, tasks,
                 started, aq, returner, released, shutdown, sd, tableVars, ctxs,
                 pipe >>

\* A Call: the fields alloced, results and acked of the Go struct; phase,
\* the place of the call in its life ("none", "queued", "dequeued", "body",
\* "returned", "finished"); err, what its body returned; nAlloc, the number
\* of Returner.AllocResults invocations made for it; spawned, the number of
\* handleCalls goroutines its Ack started.
NoCall ==
    [ phase |-> "none", alloced |-> FALSE, results |-> ZeroStruct,
      acked |-> FALSE, err |-> NoErr, nAlloc |-> 0, spawned |-> 0 ]

\* The Call start() builds.
NewCall == [ NoCall EXCEPT !.phase = "queued" ]

\* The Call after handleCall is through with it: it must not be used again.
FinishedCall == [ NoCall EXCEPT !.phase = "finished" ]

\* A body's own record of its use of the Call: the AllocResults and Ack
\* invocations it made, and what its last AllocResults returned.
NoFrame == [ allocs |-> 0, acks |-> 0, allocRet |-> "none" ]

\* An answer is [state, results, err, n]: n counts the fulfill and reject
\* invocations made on it.
NoAnswer == [ state |-> "none", results |-> ZeroStruct, err |-> NoErr, n |-> 0 ]
newAnswerQueue == [ NoAnswer EXCEPT !.state = "unresolved" ]

\* The pipelined calls made on an AnswerQueue: np counts them and numbers
\* them in the order they were made; pending holds those that wait for the
\* answer, oldest first; out lists the deliveries made so far, each with the
\* way it came about ("replayed", "rejected", "immediate") and its error.
NoPipeline == [ np |-> 0, pending |-> << >>, out |-> << >> ]

NoTask == [ pc |-> "none", call |-> 0, drain |-> FALSE ]
NewTask == [ pc |-> "recv", call |-> 0, drain |-> FALSE ]
ExitTask == [ pc |-> "exit", call |-> 0, drain |-> FALSE ]

\* The contexts of a call: caller is call.ctx being done, cancelCall the
\* cancel function of callCtx having been called, mon the goroutine that
\* watches callCtx and the lifetime context ("none" for a call the receive
\* loop did not take).
NoCtx == [ caller |-> FALSE, cancelCall |-> FALSE, mon |-> "none" ]

\* A lookup is the identity asked for and the *Method find returned.
NoLookup == [ id |-> MethodID(0, 0), mm |-> NilMethod, made |-> FALSE ]

NoReply == [ op |-> "none", id |-> MethodID(0, 0), place |-> "none", err |-> NoErr,
             answer |-> "none", release |-> "none", notified |-> "none" ]

\* New(ms): the table is a sorted copy of ms; a fresh lifetime context, an
\* empty queue, one handleCalls goroutine.
New(ms) ==
    /\ canceled = FALSE
    /\ wg = 0
    /\ callQueue = << >>
    /\ nEnq = 0
    /\ pending = 0
    /\ calls = [ c \in CallIDs |-> NoCall ]
    /\ frames = [ c \in CallIDs |-> NoFrame ]
    /\ tasks = [ t \in TaskIDs |-> IF t = 0 THEN NewTask ELSE NoTask ]
    /\ started = [ c \in CallIDs |-> FALSE ]
    /\ aq = [ c \in CallIDs |-> NoAnswer ]
    /\ returner = [ c \in CallIDs |-> [ n |-> 0, err |-> NoErr ] ]
    /\ released = [ c \in CallIDs |-> 0 ]
    /\ reply = NoReply
    /\ shutdown \in BOOLEAN
    /\ sd = [ pc |-> "idle", hooks |-> 0 ]
    /\ input = ms
    /\ methods = SortMethods(ms)
    /\ lookup = NoLookup
    /\ ctxs = [ c \in CallIDs |-> NoCtx ]
    /\ pipe = [ c \in CallIDs |-> NoPipeline ]

\* A Server made of MethodList.
Init == New(MethodList)

\* A Server made of any list of at most MaxMethods methods with pairwise
\* distinct identities.
TableInit == \E ms \in MethodLists : New(ms)

\* ------------------------------------------------------------ mpsc.Queue
\* The queue holds its items in the order they were sent: Send appends,
\* Recv and TryRecv take the oldest.
QueueSend(q, c) == Append(q, c)
QueueEmpty(q) == q = << >>
QueueFront(q) == Head(q)
QueueRest(q) == Tail(q)

\* --------------------------------------------------------- Send / Recv
\* sendArgsToStruct with the error of PlaceArgs dropped.
sendArgsToStructUnchecked(place) ==
    IF place = "nil" THEN NoErr
    ELSE IF place = "noblank" THEN NewMessageErr
    ELSE NoErr

\* sendArgsToStruct: the error it returns, for a PlaceArgs callback that is
\* nil, succeeds or fails, and for a message newBlankStruct cannot allocate.
sendArgsToStruct(place) ==
    IF place = "nil" THEN NoErr
    ELSE IF place = "noblank" THEN NewMessageErr
    ELSE IF place = "fail" THEN PlaceArgsErr
    ELSE NoErr

\* start without wg.Add(1): the Call is enqueued uncounted.
startUncounted(mm) ==
    /\ pending' = pending + 1
    /\ UNCHANGED << canceled, wg, callQueue, nEnq, calls, frames, tasks,
                    started, aq, returner, released, shutdown, sd,
                    tableVars, ctxs, pipe >>

\* srv.start up to and including wg.Add(1); the Call is enqueued by Enqueue.
start(mm) ==
    /\ wg' = wg + 1
    /\ pending' = pending + 1
    /\ UNCHANGED << canceled, callQueue, nEnq, calls, frames, tasks, started,
                    aq, returner, released, shutdown, sd, tableVars, ctxs,
                    pipe >>

\* Found with the test dropped: every identity is taken to be registered.
FoundAlways(mm) == TRUE

\* The test of Send and Recv on what find returned.
Found(mm) == mm # NilMethod

\* Server.Send with method identity id and a PlaceArgs callback. The caller
\* gets an Answer and a release function: func() {} on the two error paths,
\* the structReturner's otherwise.
Send(id, place) ==
    LET mm == find(methods, id)
        err == sendArgsToStruct(place)
    IN  IF ~Found(mm)
        THEN /\ reply' = [ op |-> "Send", id |-> id, place |-> place,
                           err |-> Unimplemented, answer |-> "rejected",
                           release |-> "noop", notified |-> "none" ]
             /\ UNCHANGED serverVars
        ELSE IF err # NoErr
        THEN /\ reply' = [ op |-> "Send", id |-> id, place |-> place,
                           err |-> err, answer |-> "rejected",
                           release |-> "noop", notified |-> "none" ]
             /\ UNCHANGED serverVars
        ELSE /\ reply' = [ op |-> "Send", id |-> id, place |-> place,
                           err |-> NoErr, answer |-> "started",
                           release |-> "returner", notified |-> "none" ]
             /\ start(mm)

\* Server.Recv with method identity id.
Recv(id) ==
    LET mm == find(methods, id)
    IN  IF ~Found(mm)
        THEN /\ reply' = [ op |-> "Recv", id |-> id, place |-> "none",
                           err |-> Unimplemented, answer |-> "nil",
                           release |-> "none", notified |-> "rejected" ]
             /\ UNCHANGED serverVars
        ELSE /\ reply' = [ op |-> "Recv", id |-> id, place |-> "none",
                           err |-> NoErr, answer |-> "started",
                           release |-> "none", notified |-> "none" ]
             /\ start(mm)

\* The rest of srv.start: newAnswerQueue and callQueue.Send of the new Call.
Enqueue ==
    /\ pending > 0
    /\ pending' = pending - 1
    /\ nEnq' = nEnq + 1
    /\ calls' = [ calls EXCEPT ![nEnq + 1] = NewCall ]
    /\ aq' = [ aq EXCEPT ![nEnq + 1] = newAnswerQueue ]
    /\ callQueue' = QueueSend(callQueue, nEnq + 1)
    /\ UNCHANGED << canceled, wg, frames, tasks, started, returner, released,
                    reply, shutdown, sd, tableVars, ctxs, pipe >>

\* ------------------------------------------------------------ the Call
\* AllocResults without the alloced test: every invocation allocates.
AllocResultsAgain(call, ok) ==
    [ call EXCEPT !.alloced = TRUE,
                  !.nAlloc = @ + 1,
                  !.results = IF ok THEN call.nAlloc + 1 ELSE ZeroStruct ]

\* AllocResults that sets alloced only when the Returner's allocation
\* succeeded.
AllocResultsMarkOnSuccess(call, ok) ==
    IF call.alloced
    THEN call
    ELSE [ call EXCEPT !.alloced = ok,
                       !.nAlloc = @ + 1,
                       !.results = IF ok THEN call.nAlloc + 1 ELSE ZeroStruct ]

\* Call.AllocResults on a Call, the Returner's allocation succeeding or not:
\* the Call afterwards.
AllocResults(call, ok) ==
    IF call.alloced
    THEN call
    ELSE [ call EXCEPT !.alloced = TRUE,
                       !.nAlloc = @ + 1,
                       !.results = IF ok THEN call.nAlloc + 1 ELSE ZeroStruct ]

\* The error Call.AllocResults returns.
AllocResultsErr(call, ok) ==
    IF call.alloced THEN MultipleAllocErr
    ELSE IF ok THEN NoErr
    ELSE AllocErr

\* Ack without the acked test: every invocation starts a goroutine.
AckAgain(call) == [ call EXCEPT !.acked = TRUE, !.spawned = @ + 1 ]

\* Call.Ack on a Call: the Call afterwards.
Ack(call) ==
    IF call.acked
    THEN call
    ELSE [ call EXCEPT !.acked = TRUE, !.spawned = @ + 1 ]

\* ------------------------------------------------- handleCalls goroutines
AtPc(t, pc) == tasks[t].pc = pc

\* callQueue.Recv(ctx) at the top of handleCalls: the oldest Call when there
\* is one, an error when ctx is done; either when both. With a Call,
\* handleCalls derives callCtx from call.ctx and starts the goroutine that
\* watches callCtx and ctx.
RecvCall(t) ==
    /\ AtPc(t, "recv")
    /\ \/ /\ ~QueueEmpty(callQueue)
          /\ tasks' = [ tasks EXCEPT ![t] = [ @ EXCEPT !.pc = "setup", !.call = QueueFront(callQueue) ] ]
          /\ calls' = [ calls EXCEPT ![QueueFront(callQueue)].phase = "dequeued" ]
          /\ callQueue' = QueueRest(callQueue)
          /\ ctxs' = [ ctxs EXCEPT ![QueueFront(callQueue)].mon = "waiting" ]
       \/ /\ canceled
          /\ tasks' = [ tasks EXCEPT ![t] = [ @ EXCEPT !.pc = "drain", !.drain = TRUE ] ]
          /\ UNCHANGED << calls, callQueue, ctxs >>
    /\ UNCHANGED << canceled, wg, nEnq, pending, frames, started, aq, returner,
                    released, reply, shutdown, sd, tableVars, pipe >>

\* callQueue.TryRecv() in the drain loop: the oldest Call, or return.
TryRecvCall(t) ==
    /\ AtPc(t, "drain")
    /\ IF ~QueueEmpty(callQueue)
       THEN /\ tasks' = [ tasks EXCEPT ![t] = [ @ EXCEPT !.pc = "setup", !.call = QueueFront(callQueue) ] ]
            /\ calls' = [ calls EXCEPT ![QueueFront(callQueue)].phase = "dequeued" ]
            /\ callQueue' = QueueRest(callQueue)
       ELSE /\ tasks' = [ tasks EXCEPT ![t] = ExitTask ]
            /\ UNCHANGED << calls, callQueue >>
    /\ UNCHANGED << canceled, wg, nEnq, pending, frames, started, aq, returner,
                    released, reply, shutdown, sd, tableVars, ctxs, pipe >>

\* handleCall is entered (from either loop) and c.method.Impl begins.
StartBody(t) ==
    /\ AtPc(t, "setup")
    /\ tasks' = [ tasks EXCEPT ![t].pc = "body" ]
    /\ calls' = [ calls EXCEPT ![tasks[t].call].phase = "body" ]
    /\ started' = [ started EXCEPT ![tasks[t].call] = TRUE ]
    /\ UNCHANGED << canceled, wg, callQueue, nEnq, pending, frames, aq,
                    returner, released, reply, shutdown, sd, tableVars, ctxs,
                    pipe >>

\* Room, within the bound, for one more use of the Call by its body.
CanUse(c) == frames[c].allocs + frames[c].acks < MaxOps

\* The running body calls c.AllocResults.
BodyAllocResults(t, ok) ==
    LET c == tasks[t].call
    IN  /\ AtPc(t, "body")
        /\ CanUse(c)
        /\ calls' = [ calls EXCEPT ![c] = AllocResults(@, ok) ]
        /\ frames' = [ frames EXCEPT ![c] =
                         [ @ EXCEPT !.allocs = @ + 1,
                                    !.allocRet = AllocResultsErr(calls[c], ok) ] ]
        /\ UNCHANGED << canceled, wg, callQueue, nEnq, pending, tasks, started,
                        aq, returner, released, reply, shutdown, sd,
                        tableVars, ctxs, pipe >>

\* The running body calls c.Ack; a first Ack starts handleCalls(handleCallsCtx).
BodyAck(t) ==
    LET c == tasks[t].call
        after == Ack(calls[c])
    IN  /\ AtPc(t, "body")
        /\ CanUse(c)
        /\ calls' = [ calls EXCEPT ![c] = after ]
        /\ frames' = [ frames EXCEPT ![c].acks = @ + 1 ]
        /\ tasks' = IF after.spawned # calls[c].spawned
                    THEN [ tasks EXCEPT ![c] = NewTask ]
                    ELSE tasks
        /\ UNCHANGED << canceled, wg, callQueue, nEnq, pending, started, aq,
                        returner, released, reply, shutdown, sd, tableVars, ctxs,
                        pipe >>

\* c.method.Impl returns err.
BodyReturn(t, err) ==
    /\ AtPc(t, "body")
    /\ tasks' = [ tasks EXCEPT ![t].pc = "release" ]
    /\ calls' = [ calls EXCEPT ![tasks[t].call] = [ @ EXCEPT !.phase = "returned", !.err = err ] ]
    /\ frames' = [ frames EXCEPT ![tasks[t].call] = NoFrame ]
    /\ UNCHANGED << canceled, wg, callQueue, nEnq, pending, started, aq,
                    returner, released, reply, shutdown, sd, tableVars, ctxs,
                    pipe >>

\* handleCall without c.recv.ReleaseArgs().
ReleaseArgsSkipped(t) ==
    /\ AtPc(t, "release")
    /\ tasks' = [ tasks EXCEPT ![t].pc = "resolve" ]
    /\ UNCHANGED << canceled, wg, callQueue, nEnq, pending, calls, frames,
                    started, aq, returner, released, reply, shutdown, sd,
                    tableVars, ctxs, pipe >>

\* handleCall: c.recv.ReleaseArgs().
ReleaseArgs(t) ==
    /\ AtPc(t, "release")
    /\ tasks' = [ tasks EXCEPT ![t].pc = "resolve" ]
    /\ released' = [ released EXCEPT ![tasks[t].call] = @ + 1 ]
    /\ UNCHANGED << canceled, wg, callQueue, nEnq, pending, calls, frames,
                    started, aq, returner, reply, shutdown, sd, tableVars, ctxs,
                    pipe >>

\* answerQueue.fulfill and answerQueue.reject: the queue resolves with the
\* value it is given.
fulfill(q, s) == [ q EXCEPT !.state = "fulfilled", !.results = s, !.n = @ + 1 ]
reject(q, e) == [ q EXCEPT !.state = "rejected", !.err = e, !.n = @ + 1 ]

\* ResolveAnswer without the test on err: the answer is always fulfilled.
ResolveFulfilled(q, call) == fulfill(q, call.results)

\* handleCall: fulfill with the results when err is nil, else reject with err.
ResolveAnswer(q, call) ==
    IF call.err = NoErr
    THEN fulfill(q, call.results)
    ELSE reject(q, call.err)

\* What fulfill and reject do with the pipelined calls that wait: fulfill
\* replays them, oldest first; reject resolves each with its error.
Settle(pp, q) ==
    LET how == IF q.state = "fulfilled" THEN "replayed" ELSE "rejected"
        err == IF q.state = "fulfilled" THEN NoErr ELSE q.err
    IN  [ pp EXCEPT !.pending = << >>,
                    !.out = @ \o [ i \in 1..Len(pp.pending) |->
                                     [ p |-> pp.pending[i], how |-> how, err |-> err ] ] ]

\* A pipelined call made on an AnswerQueue: it waits while the answer is
\* unresolved, and is dispatched at once, or gets the answer's error, after.
Submit(pp, q) ==
    LET p == pp.np + 1
    IN  IF q.state = "unresolved"
        THEN [ pp EXCEPT !.np = p, !.pending = Append(@, p) ]
        ELSE [ pp EXCEPT !.np = p,
                         !.out = Append(@, [ p |-> p, how |-> "immediate",
                                             err |-> IF q.state = "fulfilled"
                                                     THEN NoErr ELSE q.err ]) ]

\* A caller makes a pipelined call on the answer of call c.
PipelineSend(c) ==
    /\ aq[c].state # "none"
    /\ pipe[c].np < MaxPipe
    /\ pipe' = [ pipe EXCEPT ![c] = Submit(@, aq[c]) ]
    /\ UNCHANGED << canceled, wg, callQueue, nEnq, pending, calls, frames,
                    tasks, started, aq, returner, released, reply, shutdown,
                    sd, tableVars, ctxs >>

\* handleCall without the fulfill or reject of the AnswerQueue.
ResolveSkipped(t) ==
    /\ AtPc(t, "resolve")
    /\ tasks' = [ tasks EXCEPT ![t].pc = "return" ]
    /\ UNCHANGED << canceled, wg, callQueue, nEnq, pending, calls, frames,
                    started, aq, returner, released, reply, shutdown, sd,
                    tableVars, ctxs, pipe >>

\* handleCall: c.aq.fulfill(c.results) or c.aq.reject(err).
Resolve(t) ==
    LET c == tasks[t].call
        q == ResolveAnswer(aq[c], calls[c])
    IN  /\ AtPc(t, "resolve")
        /\ tasks' = [ tasks EXCEPT ![t].pc = "return" ]
        /\ aq' = [ aq EXCEPT ![c] = q ]
        /\ pipe' = [ pipe EXCEPT ![c] = Settle(@, q) ]
        /\ UNCHANGED << canceled, wg, callQueue, nEnq, pending, calls, frames,
                        started, returner, released, reply, shutdown, sd,
                        tableVars, ctxs >>

\* ReturnArg that drops the body's error.
ReturnNil(call) == NoErr

\* The error handleCall hands to Returner.Return.
ReturnArg(call) == call.err

\* handleCall: c.recv.Returner.Return(err).
Return(t) ==
    /\ AtPc(t, "return")
    /\ tasks' = [ tasks EXCEPT ![t].pc = "done" ]
    /\ returner' = [ returner EXCEPT ![tasks[t].call] =
                       [ n |-> @.n + 1, err |-> ReturnArg(calls[tasks[t].call]) ] ]
    /\ UNCHANGED << canceled, wg, callQueue, nEnq, pending, calls, frames,
                    started, aq, released, reply, shutdown, sd, tableVars, ctxs,
                    pipe >>

\* Where handleCalls goes after handleCall returned: the drain loop goes on
\* draining; the receive loop retires if the call was acked, else receives.
AfterCall(task, call) ==
    IF task.drain THEN [ task EXCEPT !.pc = "drain", !.call = 0 ]
    ELSE IF call.acked THEN ExitTask
    ELSE [ task EXCEPT !.pc = "recv", !.call = 0 ]

\* callCtx is done: its cancel function was called or its parent is done.
CallCtxDone(c) == ctxs[c].cancelCall \/ ctxs[c].caller

\* BodyCtxDone when the drain loop passes a context that is never done.
BodyCtxDoneFresh(c) ==
    IF ctxs[c].mon = "none" THEN FALSE ELSE CallCtxDone(c)

\* The context handleCall was given for call c is done: callCtx in the
\* receive loop, the lifetime context in the drain loop.
BodyCtxDone(c) ==
    IF ctxs[c].mon = "none" THEN canceled ELSE CallCtxDone(c)

\* The monitor of call c that watches callCtx only, not the lifetime context.
MonitorCallOnly(c) ==
    /\ ctxs[c].mon = "waiting"
    /\ CallCtxDone(c)
    /\ ctxs' = [ ctxs EXCEPT ![c] = [ @ EXCEPT !.mon = "done", !.cancelCall = TRUE ] ]
    /\ UNCHANGED << canceled, wg, callQueue, nEnq, pending, calls, frames,
                    tasks, started, aq, returner, released, reply, shutdown,
                    sd, tableVars, pipe >>

\* The goroutine handleCalls starts per call: once callCtx or the lifetime
\* context is done it calls cancelCall and ends.
Monitor(c) ==
    /\ ctxs[c].mon = "waiting"
    /\ CallCtxDone(c) \/ canceled
    /\ ctxs' = [ ctxs EXCEPT ![c] = [ @ EXCEPT !.mon = "done", !.cancelCall = TRUE ] ]
    /\ UNCHANGED << canceled, wg, callQueue, nEnq, pending, calls, frames,
                    tasks, started, aq, returner, released, reply, shutdown,
                    sd, tableVars, pipe >>

\* The context the caller passed to Send or Recv for call c is canceled.
CallerCancel(c) ==
    /\ calls[c].phase \in {"queued", "dequeued", "body", "returned"}
    /\ ~ctxs[c].caller
    /\ ctxs' = [ ctxs EXCEPT ![c].caller = TRUE ]
    /\ UNCHANGED << canceled, wg, callQueue, nEnq, pending, calls, frames,
                    tasks, started, aq, returner, released, reply, shutdown,
                    sd, tableVars, pipe >>

\* handleCall's deferred srv.wg.Done(), the deferred cancelCall() of the
\* receive loop, and handleCalls' next position.
Done(t) ==
    /\ AtPc(t, "done")
    /\ wg' = wg - 1
    /\ tasks' = [ tasks EXCEPT ![t] = AfterCall(@, calls[tasks[t].call]) ]
    /\ calls' = [ calls EXCEPT ![tasks[t].call] = FinishedCall ]
    /\ ctxs' = IF tasks[t].drain THEN ctxs
               ELSE [ ctxs EXCEPT ![tasks[t].call].cancelCall = TRUE ]
    /\ UNCHANGED << canceled, callQueue, nEnq, pending, frames, started, aq,
                    returner, released, reply, shutdown, sd, tableVars, pipe >>

\* ------------------------------------------------------------- Shutdown
\* Shutdown: srv.cancelHandleCalls().
Cancel ==
    /\ sd.pc = "idle"
    /\ sd' = [ sd EXCEPT !.pc = "wait" ]
    /\ canceled' = TRUE
    /\ UNCHANGED << wg, callQueue, nEnq, pending, calls, frames, tasks,
                    started, aq, returner, released, reply, shutdown,
                    tableVars, ctxs, pipe >>

\* Shutdown: srv.wg.Wait() returns.
Wait ==
    /\ sd.pc = "wait"
    /\ wg = 0
    /\ sd' = [ sd EXCEPT !.pc = "hook" ]
    /\ UNCHANGED << canceled, wg, callQueue, nEnq, pending, calls, frames,
                    tasks, started, aq, returner, released, reply, shutdown,
                    tableVars, ctxs, pipe >>

\* Shutdown: the hook, when there is one, and the return.
Hook ==
    /\ sd.pc = "hook"
    /\ sd' = [ pc |-> "done", hooks |-> IF shutdown THEN sd.hooks + 1 ELSE sd.hooks ]
    /\ UNCHANGED << canceled, wg, callQueue, nEnq, pending, calls, frames,
                    tasks, started, aq, returner, released, reply, shutdown,
                    tableVars, ctxs, pipe >>

\* srv.methods.find(id), as Send and Recv make it.
Find(id) ==
    /\ lookup' = [ id |-> id, mm |-> find(methods, id), made |-> TRUE ]
    /\ UNCHANGED << canceled, wg, callQueue, nEnq, pending, calls, frames,
                    tasks, started, aq, returner, released, reply, shutdown,
                    sd, input, methods, ctxs, pipe >>

\* ------------------------------------------------------- specifications
\* The identities of the registered methods.
Registered == { methods[i] : i \in 1..Len(methods) }

\* One step of the handleCalls goroutine t around a call whose body returns
\* one of rets, the body's uses of its Call apart.
Dispatch(t, rets) ==
    \/ RecvCall(t)
    \/ TryRecvCall(t)
    \/ StartBody(t)
    \/ \E err \in rets : BodyReturn(t, err)
    \/ ReleaseArgs(t)
    \/ Resolve(t)
    \/ Return(t)
    \/ Done(t)

\* Spec: callers of registered methods racing with Shutdown; bodies that
\* may Ack once and return without error.
Next ==
    \/ /\ nEnq + pending < MaxCalls
       /\ \/ \E id \in Registered : Send(id, "ok")
          \/ \E id \in Registered : Recv(id)
    \/ Enqueue
    \/ \E t \in TaskIDs : Dispatch(t, {NoErr})
    \/ \E t \in TaskIDs : AtPc(t, "body") /\ ~calls[tasks[t].call].acked /\ BodyAck(t)
    \/ Cancel
    \/ Wait
    \/ Hook

Spec == Init /\ [][Next]_vars

\* FairSpec: Spec where every goroutine that can take a step eventually
\* does, and every body returns.
FairSpec ==
    /\ Spec
    /\ \A t \in TaskIDs : WF_vars(Dispatch(t, {NoErr}))
    /\ WF_vars(Enqueue)
    /\ WF_vars(Wait)
    /\ WF_vars(Hook)

\* CallSpec: the same server, with bodies that use the whole Call API.
CallNext ==
    \/ /\ nEnq + pending < MaxApiCalls
       /\ \/ \E id \in Registered : Send(id, "ok")
          \/ \E id \in Registered : Recv(id)
    \/ Enqueue
    \/ \E t \in TaskIDs : Dispatch(t, BodyResults)
    \/ \E t \in TaskIDs, ok \in BOOLEAN : BodyAllocResults(t, ok)
    \/ \E t \in TaskIDs : BodyAck(t)
    \/ Cancel
    \/ Wait
    \/ Hook

CallSpec == Init /\ [][CallNext]_vars

\* PairSpec: MaxPair calls of one method, all made with Send, whose bodies
\* may ack and may return an error.
PairNext ==
    \/ /\ nEnq + pending < MaxPair
       /\ Send(methods[1], "ok")
    \/ Enqueue
    \/ \E t \in TaskIDs : Dispatch(t, BodyResults)
    \/ \E t \in TaskIDs : AtPc(t, "body") /\ ~calls[tasks[t].call].acked /\ BodyAck(t)
    \/ Cancel
    \/ Wait
    \/ Hook

PairSpec == Init /\ [][PairNext]_vars

\* TableSpec: Servers made of every list of MethodLists, in which every
\* identity of AllIDs is looked up.
TableNext == \E id \in AllIDs : Find(id)

TableSpec == TableInit /\ [][TableNext]_vars

\* One step of the handleCalls goroutine t other than the return of a body.
Handle(t) ==
    \/ RecvCall(t)
    \/ TryRecvCall(t)
    \/ StartBody(t)
    \/ ReleaseArgs(t)
    \/ Resolve(t)
    \/ Return(t)
    \/ Done(t)

\* CtxSpec: MaxPair calls of one method whose callers may cancel their
\* contexts, racing with Shutdown and with the per-call monitors; bodies do
\* not ack.
CtxNext ==
    \/ /\ nEnq + pending < MaxPair
       /\ Recv(methods[1])
    \/ Enqueue
    \/ \E t \in TaskIDs : Dispatch(t, {NoErr})
    \/ \E c \in CallIDs : Monitor(c)
    \/ \E c \in CallIDs : CallerCancel(c)
    \/ Cancel
    \/ Wait
    \/ Hook

CtxSpec == Init /\ [][CtxNext]_vars

\* CtxFairSpec: CtxSpec where every goroutine that can take a step
\* eventually does; a body may run for ever.
CtxFairSpec ==
    /\ CtxSpec
    /\ \A t \in TaskIDs : WF_vars(Handle(t))
    /\ \A c \in CallIDs : WF_vars(Monitor(c))
    /\ WF_vars(Enqueue)
    /\ WF_vars(Wait)
    /\ WF_vars(Hook)

\* PipeSpec: MaxApiCalls calls of one method, bodies that return nil or an
\* error, and callers that make pipelined calls on the answers at any time.
PipeNext ==
    \/ /\ nEnq + pending < MaxApiCalls
       /\ Recv(methods[1])
    \/ Enqueue
    \/ \E t \in TaskIDs : Dispatch(t, BodyResults)
    \/ \E c \in CallIDs : PipelineSend(c)
    \/ Cancel
    \/ Wait
    \/ Hook

PipeSpec == Init /\ [][PipeNext]_vars

\* One step of the handleCalls goroutine t that does not depend on a body
\* that has acked: such a body may run for ever.
Progress(t) ==
    \/ RecvCall(t)
    \/ TryRecvCall(t)
    \/ StartBody(t)
    \/ AtPc(t, "body") /\ ~calls[tasks[t].call].acked /\ BodyReturn(t, NoErr)
    \/ ReleaseArgs(t)
    \/ Resolve(t)
    \/ Return(t)
    \/ Done(t)

\* AckFairSpec: Spec where every goroutine that can take a step eventually
\* does and every body that has not acked returns.
AckFairSpec ==
    /\ Spec
    /\ \A t \in TaskIDs : WF_vars(Progress(t))
    /\ WF_vars(Enqueue)
    /\ WF_vars(Wait)
    /\ WF_vars(Hook)

\* ClientSpec: the same server, with callers that ask for any identity and
\* bodies that only return.
ClientNext ==
    \/ \E id \in QueryIDs, place \in PlaceInputs :
         (Found(find(methods, id)) /\ sendArgsToStruct(place) = NoErr
            => nEnq + pending < MaxApiCalls)
         /\ Send(id, place)
    \/ \E id \in QueryIDs :
         (Found(find(methods, id)) => nEnq + pending < MaxApiCalls)
         /\ Recv(id)
    \/ Enqueue
    \/ \E t \in TaskIDs : Dispatch(t, BodyResults)
    \/ Cancel
    \/ Wait
    \/ Hook

ClientSpec == Init /\ [][ClientNext]_vars

\* ------------------------------------------------------------ the claims
Unacked == { c \in CallIDs : calls[c].phase = "body" /\ ~calls[c].acked }

\* C1: for calls c1 enqueued before c2 (a call's id is its rank in the
\* queue), the body of c1 starts before the body of c2: no body is running
\* or done while the body of an earlier call has yet to start.
C1_BodiesStartInEnqueueOrder ==
    \A c1, c2 \in CallIDs : c1 < c2 /\ started[c2] => started[c1]

\* C2: among the bodies that are executing, at most one has not called Ack.
C2_AtMostOneUnackedBody == Cardinality(Unacked) <= 1

Resolved(c) == aq[c].state \in {"fulfilled", "rejected"}

\* C3: every call start() enqueues is eventually dequeued, its body run and
\* its AnswerQueue fulfilled or rejected.
C3_EnqueuedIsResolved ==
    \A c \in CallIDs : (calls[c].phase = "queued") ~> Resolved(c)

\* The state Shutdown promises when it returns.
AllHandled ==
    /\ wg = 0
    /\ pending = 0
    /\ \A c \in CallIDs : calls[c].phase # "none" =>
         /\ calls[c].phase = "finished"
         /\ started[c]
         /\ Resolved(c)
         /\ returner[c].n = 1

\* C8: when Shutdown returns the counter is zero, every started call has run,
\* is resolved and its Returner notified, and the hook has run exactly once
\* (not at all when it is nil), never before the counter reached zero.
C8_ShutdownReturnsQuiescent ==
    [][ sd.pc = "hook" /\ sd'.pc = "done" =>
          /\ AllHandled'
          /\ sd'.hooks = IF shutdown THEN 1 ELSE 0
          /\ sd.hooks = 0 ]_vars

\* C9: Shutdown, once invoked, eventually returns.
C9_ShutdownReturns == (sd.pc = "wait") ~> (sd.pc = "done")

\* C4: handleCall resolves the AnswerQueue of a call exactly once, after the
\* body returned: fulfilled with the call's results when the body returned
\* no error, rejected with the body's error otherwise; a resolved answer
\* never changes again.
C4_AnswerResolvedOnce ==
    [][ \A c \in CallIDs :
          /\ aq'[c].n <= 1
          /\ Resolved(c) => aq'[c] = aq[c]
          /\ aq[c].state = "unresolved" /\ aq'[c] # aq[c] =>
               /\ calls[c].phase = "returned"
               /\ aq'[c].n = 1
               /\ IF calls[c].err = NoErr
                  THEN aq'[c].state = "fulfilled" /\ aq'[c].results = calls[c].results
                  ELSE aq'[c].state = "rejected" /\ aq'[c].err = calls[c].err
          /\ calls'[c].phase = "finished" => Resolved(c)' /\ aq'[c].n = 1 ]_vars

\* A call was rejected with its body's error after it had allocated results.
C4_Witness ==
    \E c \in CallIDs :
        /\ aq[c].state = "rejected"
        /\ aq[c].err \in BodyErrors
        /\ calls[c].phase = "returned"
        /\ calls[c].results # ZeroStruct

\* C5: a Send or Recv of an identity that is not in the method table gets
\* the unimplemented error at once (Send: a rejected answer; Recv: the
\* Returner rejected and a nil pipeline) and changes nothing in the Server.
C5_AbsentMethodUnimplemented ==
    [][ reply' # reply /\ reply'.id \notin Registered =>
          /\ reply'.err = Unimplemented
          /\ reply'.op = "Send" => reply'.answer = "rejected" /\ reply'.notified = "none"
          /\ reply'.op = "Recv" => reply'.answer = "nil" /\ reply'.notified = "rejected"
          /\ UNCHANGED serverVars ]_vars

\* An absent identity was asked for while a call was queued and one outstanding.
C5_Witness ==
    /\ reply.err = Unimplemented
    /\ reply.op = "Recv"
    /\ ~QueueEmpty(callQueue)
    /\ wg > 0

\* C6: once a first AllocResults of a call has succeeded, every later
\* AllocResults on it returns the multiple-calls error, does not invoke the
\* Returner's allocator and leaves the call's results untouched.
C6_SecondAllocResultsFails ==
    [][ \A c \in CallIDs :
          /\ frames'[c].allocs = frames[c].allocs + 1
          /\ frames[c].allocs >= 1
          /\ calls[c].results # ZeroStruct
          => /\ frames'[c].allocRet = MultipleAllocErr
             /\ calls'[c].nAlloc = calls[c].nAlloc
             /\ calls'[c].results = calls[c].results
             /\ calls'[c].results = 1 ]_vars

\* A second AllocResults was refused after the first one succeeded.
C6_Witness ==
    \E c \in CallIDs :
        /\ frames[c].allocs >= 2
        /\ frames[c].allocRet = MultipleAllocErr
        /\ calls[c].results = 1

\* C7: the first Ack of a call sets acked and starts exactly one handleCalls
\* goroutine; every further Ack of the call changes nothing.
C7_AckIdempotent ==
    [][ \A c \in CallIDs :
          frames'[c].acks = frames[c].acks + 1 =>
            IF calls[c].acked
            THEN /\ calls' = calls
                 /\ tasks' = tasks
                 /\ UNCHANGED << canceled, wg, callQueue, nEnq, pending, started,
                                 aq, returner, released, shutdown, sd,
                                 tableVars, ctxs, pipe >>
            ELSE /\ calls'[c].acked
                 /\ calls'[c].spawned = 1
                 /\ tasks[c] = NoTask
                 /\ tasks'[c] = NewTask
                 /\ \A t \in TaskIDs \ {c} : tasks'[t] = tasks[t] ]_vars

\* A body has called Ack more than once.
C7_Witness ==
    \E c \in CallIDs :
        /\ frames[c].acks >= 2
        /\ calls[c].acked
        /\ calls[c].spawned = 1

\* C10: Returner.Return is invoked exactly once per call, after the body
\* returned and the answer was resolved, with the error the body returned,
\* which is the one the answer was resolved with.
C10_ReturnerNotifiedOnce ==
    [][ \A c \in CallIDs :
          /\ returner'[c].n <= 1
          /\ returner'[c] # returner[c] =>
               /\ calls[c].phase = "returned"
               /\ Resolved(c)
               /\ returner'[c].n = 1
               /\ returner'[c].err = calls[c].err
               /\ returner'[c].err = NoErr <=> aq[c].state = "fulfilled"
               /\ aq[c].state = "rejected" => aq[c].err = returner'[c].err
          /\ calls'[c].phase = "finished" => returner'[c].n = 1 ]_vars

\* The Returner of a call that acked and ran in the drain loop got the
\* body's error.
C10_Witness ==
    \E t \in TaskIDs :
        /\ tasks[t].pc = "done"
        /\ tasks[t].drain
        /\ calls[tasks[t].call].acked
        /\ returner[tasks[t].call].n = 1
        /\ returner[tasks[t].call].err \in BodyErrors

\* C11: once a running body has acked, every call queued behind it is
\* eventually dequeued and its body started, whether or not the acked body
\* returns.
C11_ProgressAfterAck ==
    \A c1, c2 \in CallIDs :
        (c1 < c2 /\ calls[c1].phase = "body" /\ calls[c1].acked
           /\ calls[c2].phase = "queued")
        ~> started[c2]

\* C12: while a body runs without having acked, no call enqueued after it
\* has its body started or its answer resolved.
C12_UnackedBodyBlocksLaterCalls ==
    \A c1, c2 \in CallIDs :
        c1 < c2 /\ calls[c1].phase = "body" /\ ~calls[c1].acked
        => ~started[c2] /\ ~Resolved(c2)

\* The handleCalls goroutines that will take from the queue again: those at
\* Recv or TryRecv, and those around a call unless they are in the receive
\* loop and the call has acked.
Consumers ==
    { t \in TaskIDs :
        \/ tasks[t].pc \in {"recv", "drain"}
        \/ /\ tasks[t].pc \in {"setup", "body", "release", "resolve", "return", "done"}
           /\ tasks[t].drain \/ ~calls[tasks[t].call].acked }

\* C14: two handleCalls goroutines never consume the queue concurrently:
\* a goroutine whose call acked never dequeues again.
C14_OneConsumer == Cardinality(Consumers) <= 1

\* The calls for which start() has added to the counter and handleCall has
\* not finished: those between wg.Add and the enqueue are counted by pending.
Outstanding ==
    { c \in CallIDs : calls[c].phase \in {"queued", "dequeued", "body", "returned"} }

\* C17: the counter is never negative and equals the number of calls between
\* start()'s wg.Add and the end of handleCall; it goes up by one, before the
\* Call is enqueued, and down by one, only for a call whose answer is
\* resolved and whose Returner has been notified.
C17_CounterCountsOutstanding ==
    /\ wg = pending + Cardinality(Outstanding)
    /\ [][ /\ wg' \in Nat
           /\ wg' = pending' + Cardinality(Outstanding')
           /\ wg' >= Len(callQueue') + Cardinality({ c \in CallIDs : calls'[c].phase = "body" })
           /\ wg' > wg => /\ wg' = wg + 1
                          /\ pending' = pending + 1
                          /\ callQueue' = callQueue
                          /\ nEnq' = nEnq
           /\ wg' < wg => /\ wg' = wg - 1
                          /\ \E c \in CallIDs :
                                /\ calls[c].phase = "returned"
                                /\ calls'[c].phase = "finished"
                                /\ Resolved(c)
                                /\ returner[c].n = 1
                                /\ \A d \in CallIDs \ {c} : calls'[d] = calls[d] ]_vars

C17_Witness ==
    \E c \in CallIDs :
        /\ calls[c].phase = "finished"
        /\ Resolved(c)
        /\ returner[c].n = 1
        /\ wg = 0
        /\ pending = 0

\* C18: the dispatcher releases the arguments of a call exactly once, after
\* its body has returned and before its answer is resolved and its Returner
\* notified, whether or not the body acked; never while the body runs.
C18_ArgsReleasedOnce ==
    [][ \A c \in CallIDs :
          /\ released'[c] # released[c] =>
               /\ released[c] = 0
               /\ released'[c] = 1
               /\ calls[c].phase = "returned"
               /\ ~Resolved(c)
               /\ returner[c].n = 0
          /\ Resolved(c)' /\ ~Resolved(c) => released[c] = 1
          /\ returner'[c] # returner[c] => released[c] = 1
          /\ calls'[c].phase \in {"queued", "dequeued", "body"} => released'[c] = 0
          /\ calls'[c].phase = "finished" => released'[c] = 1 ]_vars

C18_Witness ==
    \E c1, c2 \in CallIDs :
        /\ c1 < c2
        /\ calls[c1].phase = "returned"
        /\ calls[c1].acked
        /\ started[c2]
        /\ released[c1] = 1
        /\ ~Resolved(c1)
        /\ returner[c1].n = 0

\* C20: a Send whose method is registered and whose PlaceArgs callback fails
\* returns an already rejected answer carrying the placement error and a
\* no-op release function, and leaves the Server untouched: no Call is
\* counted, enqueued or run.
C20_PlaceArgsFailureRejects ==
    [][ /\ reply' # reply
        /\ reply'.op = "Send"
        /\ reply'.id \in Registered
        /\ reply'.place = "fail"
        => /\ reply'.answer = "rejected"
           /\ reply'.err = PlaceArgsErr
           /\ reply'.release = "noop"
           /\ UNCHANGED serverVars ]_vars

C20_Witness ==
    /\ reply.op = "Send"
    /\ reply.id \in Registered
    /\ reply.place = "fail"
    /\ reply.answer = "rejected"
    /\ reply.err = PlaceArgsErr
    /\ nEnq = 0
    /\ pending = 0
    /\ wg = 0

\* The identities handed to New.
InputIDs == { input[i] : i \in 1..Len(input) }

\* a comes before b in ascending (InterfaceID, MethodID) order.
Before(a, b) ==
    \/ a.InterfaceID < b.InterfaceID
    \/ a.InterfaceID = b.InterfaceID /\ a.MethodID < b.MethodID

\* The table holds the methods handed to New, in ascending order; the last
\* lookup found the method of the identity asked for if there is one and
\* nothing otherwise.
TableCorrect ==
    /\ Len(methods) = Len(input)
    /\ { methods[i] : i \in 1..Len(methods) } = InputIDs
    /\ \A i, j \in 1..Len(methods) : i < j => Before(methods[i], methods[j])
    /\ lookup.made =>
         IF lookup.id \in InputIDs
         THEN lookup.mm # NilMethod /\ methods[lookup.mm] = lookup.id
         ELSE lookup.mm = NilMethod

\* C19: whatever the order of the methods handed to New, the table holds
\* exactly those methods in ascending (InterfaceID, MethodID) order and never
\* changes, and find(id) returns the method of identity id if one was handed
\* to New and nil otherwise.
C19_FindReturnsRegisteredMethod ==
    /\ TableCorrect
    /\ [][ methods' = methods /\ TableCorrect' ]_vars

C19_Witness ==
    /\ Len(input) = MaxMethods
    /\ input # methods
    /\ lookup.made
    /\ lookup.id = input[1]
    /\ lookup.mm = Len(methods)

\* Call c is in the queue.
InQueue(c) == \E i \in 1..Len(callQueue) : callQueue[i] = c

\* Cancelling the lifetime context leaves the queue and the calls as they
\* are; a call leaves the queue only into the hands of a handleCalls goroutine.
QueueKept ==
    /\ canceled' # canceled => callQueue' = callQueue /\ calls' = calls
    /\ \A c \in CallIDs :
          InQueue(c) /\ ~InQueue(c)' =>
             /\ calls'[c].phase = "dequeued"
             /\ \E t \in TaskIDs : tasks'[t].call = c

\* C15 (as claimed): every body that starts after the lifetime context was
\* canceled is given a context that is done when it starts, in the receive
\* loop and in the drain loop alike; cancellation removes no call from the
\* queue.
C15_BodyStartsCanceled ==
    [][ /\ \A c \in CallIDs :
              started'[c] /\ ~started[c] /\ canceled => BodyCtxDone(c)'
        /\ QueueKept ]_vars

\* C15 (amended): every body the drain loop starts is given a context that is
\* done when it starts; a body the receive loop starts is given callCtx,
\* which is done once the call's monitor has run; cancellation removes no
\* call from the queue.
C15_DrainBodyStartsCanceled ==
    [][ /\ \A c \in CallIDs :
              started'[c] /\ ~started[c] /\ ctxs'[c].mon = "none"
              => canceled /\ BodyCtxDone(c)'
        /\ \A c \in CallIDs : ctxs'[c].mon = "done" => CallCtxDone(c)'
        /\ QueueKept ]_vars

C15_Witness ==
    \E c1, c2 \in CallIDs :
        /\ canceled
        /\ calls[c1].phase = "body"
        /\ ctxs[c1].mon = "none"
        /\ calls[c2].phase = "finished"
        /\ ctxs[c2].mon = "done"

\* C16: the callCtx of a call the receive loop runs is canceled eventually
\* once the caller's context or the lifetime context is done while the body
\* runs; the Server does not cancel it before one of the two is done or
\* handleCall has returned; the monitor ends once the body has returned.
C16_CallCtxFollowsBoth ==
    /\ [](\A c \in CallIDs :
            ctxs[c].cancelCall =>
                ctxs[c].caller \/ canceled \/ calls[c].phase = "finished")
    /\ \A c \in CallIDs :
          (calls[c].phase = "body" /\ ctxs[c].mon # "none"
             /\ (ctxs[c].caller \/ canceled))
          ~> CallCtxDone(c)
    /\ \A c \in CallIDs :
          (calls[c].phase = "returned" /\ ctxs[c].mon = "waiting")
          ~> (ctxs[c].mon = "done")

C16_Witness ==
    \E c \in CallIDs :
        /\ calls[c].phase = "body"
        /\ canceled
        /\ ~ctxs[c].caller
        /\ ctxs[c].mon = "done"
        /\ ctxs[c].cancelCall

\* The number of places of the sequence sq that hold the pipelined call p.
Places(sq, p) == Cardinality({ i \in 1..Len(sq) : sq[i] = p })

\* The pipelined calls delivered on the answer of call c, in delivery order.
Delivered(c) == [ i \in 1..Len(pipe[c].out) |-> pipe[c].out[i].p ]

\* C13: every pipelined call made on an AnswerQueue is delivered exactly
\* once: it waits while the answer is unresolved and is replayed, oldest
\* first, when the answer is fulfilled, or gets the error when it is
\* rejected; made after the resolution it is dispatched at once; when
\* handleCall is over none waits any more.
C13_PipelinedDeliveredOnce ==
    \A c \in CallIDs :
        LET pp == pipe[c]
        IN  /\ \A p \in 1..pp.np : Places(pp.pending, p) + Places(Delivered(c), p) = 1
            /\ Len(pp.pending) + Len(pp.out) = pp.np
            /\ ~Resolved(c) => pp.out = << >>
            /\ Resolved(c) => pp.pending = << >>
            /\ calls[c].phase = "finished" => pp.pending = << >>
            /\ \A i, j \in 1..Len(pp.pending) : i < j => pp.pending[i] < pp.pending[j]
            /\ \A i, j \in 1..Len(pp.out) : i < j => pp.out[i].p < pp.out[j].p
            /\ \A i \in 1..Len(pp.out) :
                  /\ aq[c].state = "fulfilled" =>
                        pp.out[i].err = NoErr /\ pp.out[i].how \in {"replayed", "immediate"}
                  /\ aq[c].state = "rejected" =>
                        pp.out[i].err = aq[c].err /\ pp.out[i].how \in {"rejected", "immediate"}

C13_Witness ==
    \E c \in CallIDs :
        /\ aq[c].state = "fulfilled"
        /\ Len(pipe[c].out) = MaxPipe
        /\ pipe[c].out[1].how = "replayed"
        /\ pipe[c].out[MaxPipe].how = "immediate"

\* C21: the first AllocResults of a call sets alloced whether or not the
\* Returner's allocation succeeds; after a first AllocResults that returned
\* the allocation error, every later one returns the multiple-calls error
\* and leaves the Call as it is; the Returner's allocator is invoked at most
\* once per call.
C21_FailedAllocResultsIsFinal ==
    [][ \A c \in CallIDs :
          /\ calls'[c].nAlloc <= 1
          /\ frames'[c].allocs = frames[c].allocs + 1 =>
               IF frames[c].allocs = 0
               THEN /\ calls'[c].alloced
                    /\ calls'[c].nAlloc = 1
                    /\ frames'[c].allocRet \in {NoErr, AllocErr}
               ELSE /\ calls[c].alloced
                    /\ frames'[c].allocRet = MultipleAllocErr
                    /\ calls'[c] = calls[c] ]_vars

\* A second AllocResults was refused after the first one had failed.
C21_Witness ==
    \E c \in CallIDs :
        /\ frames[c].allocs >= 2
        /\ frames[c].allocRet = MultipleAllocErr
        /\ calls[c].alloced
        /\ calls[c].nAlloc = 1
        /\ calls[c].results = ZeroStruct
====
